---- MODULE Spec2Model ----
(***************************************************************************)
(* pycketcasts/entities/episode.py: the Episode entity.                    *)
(*                                                                         *)
(* One Episode object is followed from the call of its constructor through *)
(* a bounded sequence of property reads and method calls.  The API object  *)
(* (self._api) and the Podcast class are collaborators outside the file:   *)
(* every call into them is recorded (requests, lookups) and its result is  *)
(* chosen nondeterministically among the results such a call can have.     *)
(*                                                                         *)
(* Python values: an optional value is None (<<>>) or Some(v) (<<v>>); a   *)
(* dict read with .get(k) yields None for an absent key, so the payload is *)
(* a record of optional fields.  Text that the code parses (the            *)
(* 'published' field) is a sequence of one-character strings.              *)
(***************************************************************************)
EXTENDS Integers, Sequences, FiniteSets, TLC

\* Bounds of the model.
MaxOps == 2          \* operations performed on the Episode after construction
MaxDuration == 1     \* largest episode duration, in seconds

None == <<>>
Some(v) == <<v>>

\* Python truthiness of an optional string: None and "" are falsy.
Truthy(o) == o # None /\ o[1] # ""

\* Python truthiness of an optional object without __bool__/__len__.
TruthyObj(o) == o # None

-----------------------------------------------------------------------------
(* Text and datetime.strptime *)

UpperCase == <<"A","B","C","D","E","F","G","H","I","J","K","L","M",
               "N","O","P","Q","R","S","T","U","V","W","X","Y","Z">>
LowerCase == <<"a","b","c","d","e","f","g","h","i","j","k","l","m",
               "n","o","p","q","r","s","t","u","v","w","x","y","z">>
Digits == <<"0","1","2","3","4","5","6","7","8","9">>

\* Case folding of one character (re.IGNORECASE).
Fold(c) ==
    IF \E i \in 1..26 : UpperCase[i] = c
    THEN LowerCase[CHOOSE i \in 1..26 : UpperCase[i] = c]
    ELSE c

\* The format string the code hands to strptime.
DATE_FORMAT == <<"Y","Y","Y","Y","-","M","M","-","D","D","T",
                 "H","H",":","m","m",":","s","s","Z">>

\* A format with no '%' holds no directive: its regular expression is the
\* format's own text, matched from the start, ignoring case.
HasDirective(fmt) == \E i \in 1..Len(fmt) : fmt[i] = "%"

\* Length of the longest prefix of s the directive-free format matches, or -1.
LiteralMatch(s, fmt) ==
    IF /\ Len(s) >= Len(fmt)
       /\ \A i \in 1..Len(fmt) : Fold(s[i]) = Fold(fmt[i])
    THEN Len(fmt)
    ELSE -1

\* datetime.strptime(s, fmt) for a directive-free fmt:
\*   s not a str                 -> TypeError
\*   no match                    -> ValueError (does not match format)
\*   match shorter than s        -> ValueError (unconverted data remains)
\*   otherwise the default date  -> datetime(1900, 1, 1, 0, 0, 0)
strptime(s, fmt) ==
    IF s = None THEN [raised |-> "TypeError", value |-> None]
    ELSE IF HasDirective(fmt) THEN [raised |-> "Unmodelled", value |-> None]
    ELSE IF LiteralMatch(s[1], fmt) = -1 THEN [raised |-> "ValueError", value |-> None]
    ELSE IF LiteralMatch(s[1], fmt) # Len(s[1]) THEN [raised |-> "ValueError", value |-> None]
    ELSE [raised |-> "",
          value |-> Some([year |-> 1900, month |-> 1, day |-> 1,
                          hour |-> 0, minute |-> 0, second |-> 0])]

-----------------------------------------------------------------------------
(* Inputs *)

TS_2020 == <<"2","0","2","0","-","0","1","-","3","1","T",
             "1","0",":","0","0",":","0","0","Z">>
TS_1999 == <<"1","9","9","9","-","1","2","-","3","1","T",
             "2","3",":","5","9",":","5","9","Z">>
TS_LowerFormat == <<"y","y","y","y","-","m","m","-","d","d","t",
                    "h","h",":","m","m",":","s","s","z">>
TS_Garbage == <<"n","/","a">>

PublishedValues ==
    {None, Some(TS_2020), Some(TS_1999), Some(DATE_FORMAT),
     Some(TS_LowerFormat), Some(TS_Garbage), Some(DATE_FORMAT \o <<" ">>)}

BasePayload ==
    [uuid |-> Some("ep-1"), title |-> Some("Title"), url |-> Some("http://e/1.mp3"),
     duration |-> Some(MaxDuration), published |-> Some(TS_2020),
     playing_status |-> Some(0), playedUpTo |-> Some(0),
     isDeleted |-> Some(FALSE), starred |-> Some(FALSE),
     podcastUuid |-> Some("pod-1")]

\* Payloads that differ in the parent reference: absent, empty, present.
ParentPayloads ==
    {[BasePayload EXCEPT !.podcastUuid = x] : x \in {None, Some(""), Some("pod-1")}}

\* The JSON payloads an Episode is built from: the base record with one field
\* varied at a time.
Payloads ==
    ParentPayloads
    \cup {[BasePayload EXCEPT !.duration = d] :
             d \in {None} \cup {Some(n) : n \in 0..MaxDuration}}
    \cup {[BasePayload EXCEPT !.published = p] : p \in PublishedValues}
    \cup {[BasePayload EXCEPT !.playing_status = s] : s \in {None, Some(2)}}
    \cup {[BasePayload EXCEPT !.starred = Some(TRUE), !.playedUpTo = Some(1),
                              !.uuid = None]}

\* The podcast argument of the constructor.
PodcastArgs == {None, Some([id |-> "pod-2"])}

\* The constructor's arguments: every payload with a podcast supplied, and the
\* payloads that differ in the parent reference also without one.
Arguments ==
    [data : Payloads, podcast : {Some([id |-> "pod-2"])}]
    \cup [data : ParentPayloads, podcast : PodcastArgs]

\* progress arguments of update_progress
ProgressValues == 0..(MaxDuration + 1)

\* Results of the API object's _post: None, or a response that is falsy
\* (an error status) or truthy.
PostResults == {"None", "Response[400]", "Response[200]"}
TruthyResult(r) == r = "Response[200]"

\* Results of the API object's _post_json for the share endpoint.
ShareResponses == {None, Some({}), Some({<<"url", "http://share/1">>}),
                   Some({<<"message", "no link">>})}

\* Results of the API object's _get_json for the show notes.
NotesResponses == {None, Some({}), Some({<<"show_notes", "Notes">>})}

\* dict.get(key, default) on a JSON object held as a set of <<key, value>> pairs.
DictGet(d, key, default) ==
    IF \E kv \in d : kv[1] = key
    THEN Some((CHOOSE kv \in d : kv[1] = key)[2])
    ELSE default

-----------------------------------------------------------------------------
(* State *)

VARIABLES
    pc,         \* "new": constructor not yet run; "live"; "failed": it raised
    args,       \* the constructor's arguments [data, podcast]
    _data,      \* self._data
    _podcast,   \* self._podcast
    _api,       \* self._api: None until the constructor assigns it
    requests,   \* HTTP requests issued through the API object, in order
    lookups,    \* podcast ids handed to api.get_podcast_by_id, in order
    results     \* outcome of the constructor and of each operation, in order

vars == <<pc, args, _data, _podcast, _api, requests, lookups, results>>

Last(s) == s[Len(s)]

ret == Last(results)

Init ==
    /\ pc = "new"
    /\ args \in Arguments
    /\ _data = None
    /\ _podcast = None
    /\ _api = None
    /\ requests = <<>>
    /\ lookups = <<>>
    /\ results = <<>>

\* Outcome records.
Returned(op, v) == [op |-> op, raised |-> "", value |-> v]
Raised(op, exc) == [op |-> op, raised |-> exc, value |-> None]

\* Variant of podcast_id that prefers the parent object to the payload.
podcast_id_parent_first(d, pod, api) ==
    IF TruthyObj(pod) THEN Returned("podcast_id", Some(pod[1].id))
    ELSE IF Truthy(d.podcastUuid) THEN Returned("podcast_id", d.podcastUuid)
    ELSE IF api = None THEN Raised("podcast_id", "AttributeError")
    ELSE Raised("podcast_id", "RecursionError")

\* Episode.podcast_id, evaluated on the fields (data, pod, api) of self.
\* With a falsy 'podcastUuid' it reads self.podcast.id; Episode.podcast with a
\* falsy self._podcast evaluates self._api.get_podcast_by_id and then its
\* argument self.podcast_id again: AttributeError while self._api is not
\* yet assigned, unbounded recursion (RecursionError) once it is.  No branch
\* completes a get_podcast_by_id call.
podcast_id(d, pod, api) ==
    IF Truthy(d.podcastUuid) THEN Returned("podcast_id", d.podcastUuid)
    ELSE IF TruthyObj(pod) THEN Returned("podcast_id", Some(pod[1].id))
    ELSE IF api = None THEN Raised("podcast_id", "AttributeError")
    ELSE Raised("podcast_id", "RecursionError")

\* api.get_podcast_by_id(podcast_id=p): the Podcast of that id, or None.
LookupResults(p) == {None, Some([id |-> p])}

\* Episode.__init__
__init__ ==
    /\ pc = "new"
    /\ _data' = Some(args.data)
    /\ UNCHANGED <<args, requests>>
    /\ IF TruthyObj(args.podcast)
       THEN /\ _podcast' = args.podcast
            /\ _api' = Some("api")
            /\ pc' = "live"
            /\ results' = Append(results, Returned("__init__", None))
            /\ UNCHANGED lookups
       ELSE LET pid == podcast_id(args.data, args.podcast, None)
            IN IF pid.raised # ""
               THEN /\ pc' = "failed"
                    /\ results' = Append(results, Raised("__init__", pid.raised))
                    /\ UNCHANGED <<_podcast, _api, lookups>>
               ELSE /\ lookups' = Append(lookups, pid.value[1])
                    /\ _podcast' \in LookupResults(pid.value[1])
                    /\ _api' = Some("api")
                    /\ pc' = "live"
                    /\ results' = Append(results, Returned("__init__", None))

\* An operation may start: the Episode exists and the bound is not reached.
Live == pc = "live" /\ Len(results) <= MaxOps

\* self._data of the constructed Episode.
data == _data[1]

-----------------------------------------------------------------------------
(* Collaborators *)

\* self._api._api_base
API_BASE == "api_base"

\* _get_endpoint(name): the endpoint registered under that name.
_get_endpoint(name) == <<"endpoint", name>>

\* _make_url(base, endpoint)
_make_url(base, endpoint) == <<base, endpoint>>

\* One call of self._api.<helper>(url, <kw>=body) and the response it got.
Exchange(method, helper, url, kw, body, response) ==
    [method |-> method, helper |-> helper, url |-> url, kw |-> kw,
     body |-> body, response |-> response]

Send(x) == requests' = Append(requests, x)
Return(op, v) == results' = Append(results, Returned(op, v))
Fail(op, exc) == results' = Append(results, Raised(op, exc)) /\ UNCHANGED requests

\* Outcome of a call that took an argument.
WithArg(outcome, a) == [op |-> outcome.op, raised |-> outcome.raised,
                        value |-> outcome.value, arg |-> a]

-----------------------------------------------------------------------------
(* Properties that read the payload *)

title ==
    /\ Live
    /\ Return("title", data.title) /\ UNCHANGED requests
    /\ UNCHANGED <<pc, args, _data, _podcast, _api, lookups>>

id ==
    /\ Live
    /\ Return("id", data.uuid) /\ UNCHANGED requests
    /\ UNCHANGED <<pc, args, _data, _podcast, _api, lookups>>

duration ==
    /\ Live
    /\ Return("duration", data.duration) /\ UNCHANGED requests
    /\ UNCHANGED <<pc, args, _data, _podcast, _api, lookups>>

published_date ==
    /\ Live
    /\ LET d == strptime(data.published, DATE_FORMAT)
       IN \* try: ... except: return None
          Return("published_date", IF d.raised # "" THEN None ELSE d.value)
    /\ UNCHANGED requests
    /\ UNCHANGED <<pc, args, _data, _podcast, _api, lookups>>

url ==
    /\ Live
    /\ Return("url", data.url) /\ UNCHANGED requests
    /\ UNCHANGED <<pc, args, _data, _podcast, _api, lookups>>

playing ==
    /\ Live
    /\ IF data.playing_status = None
       THEN Fail("playing", "TypeError")       \* None > 0
       ELSE Return("playing", Some(data.playing_status[1] > 0)) /\ UNCHANGED requests
    /\ UNCHANGED <<pc, args, _data, _podcast, _api, lookups>>

current_position ==
    /\ Live
    /\ Return("current_position", data.playedUpTo) /\ UNCHANGED requests
    /\ UNCHANGED <<pc, args, _data, _podcast, _api, lookups>>

deleted ==
    /\ Live
    /\ Return("deleted", data.isDeleted) /\ UNCHANGED requests
    /\ UNCHANGED <<pc, args, _data, _podcast, _api, lookups>>

starred ==
    /\ Live
    /\ Return("starred", data.starred) /\ UNCHANGED requests
    /\ UNCHANGED <<pc, args, _data, _podcast, _api, lookups>>

\* Episode.podcast_id as an operation on the live Episode.
read_podcast_id ==
    /\ Live
    /\ results' = Append(results, podcast_id(data, _podcast, _api))
    /\ UNCHANGED requests
    /\ UNCHANGED <<pc, args, _data, _podcast, _api, lookups>>

\* Episode.podcast
podcast ==
    /\ Live
    /\ UNCHANGED <<pc, args, _data, _api, requests>>
    /\ IF TruthyObj(_podcast)
       THEN Return("podcast", _podcast) /\ UNCHANGED <<_podcast, lookups>>
       ELSE LET pid == podcast_id(data, _podcast, _api)
            IN IF pid.raised # ""
               THEN /\ results' = Append(results, Raised("podcast", pid.raised))
                    /\ UNCHANGED <<_podcast, lookups>>
               ELSE /\ lookups' = Append(lookups, pid.value[1])
                    /\ _podcast' \in LookupResults(pid.value[1])
                    /\ Return("podcast", _podcast')

-----------------------------------------------------------------------------
(* Properties that call the API *)

\* Variant of share_link that keeps the first link it obtained.
share_link_cached ==
    /\ Live
    /\ LET pid == podcast_id(data, _podcast, _api)
           earlier == SelectSeq(results, LAMBDA o : o.op = "share_link")
       IN IF earlier # <<>>
          THEN Return("share_link", earlier[1].value) /\ UNCHANGED requests
          ELSE \E resp \in ShareResponses :
                 /\ Send(Exchange("POST", "_post_json",
                                  _make_url(API_BASE, _get_endpoint("share")), "data",
                                  [episode |-> data.uuid, podcast |-> pid.value],
                                  resp))
                 /\ Return("share_link",
                           IF resp # None /\ resp[1] # {}
                           THEN DictGet(resp[1], "url", None)
                           ELSE None)
    /\ UNCHANGED <<pc, args, _data, _podcast, _api, lookups>>

\* Episode.share_link
share_link ==
    /\ Live
    /\ LET pid == podcast_id(data, _podcast, _api)
       IN IF pid.raised # ""
          THEN Fail("share_link", pid.raised)
          ELSE \E resp \in ShareResponses :
                 /\ Send(Exchange("POST", "_post_json",
                                  _make_url(API_BASE, _get_endpoint("share")), "data",
                                  [episode |-> data.uuid, podcast |-> pid.value],
                                  resp))
                 /\ Return("share_link",
                           IF resp # None /\ resp[1] # {}
                           THEN DictGet(resp[1], "url", None)
                           ELSE None)
    /\ UNCHANGED <<pc, args, _data, _podcast, _api, lookups>>

\* Episode.show_notes (the print of the url is left out)
show_notes ==
    /\ Live
    /\ \E resp \in NotesResponses :
         /\ Send(Exchange("GET", "_get_json",
                          <<"https://podcast-api.pocketcasts.com/episode/show_notes/",
                            data.uuid>>,
                          "include_token", Some(TRUE), resp))
         /\ IF resp = None
            THEN results' = Append(results, Raised("show_notes", "AttributeError"))
            ELSE Return("show_notes", DictGet(resp[1], "show_notes", Some("")))
    /\ UNCHANGED <<pc, args, _data, _podcast, _api, lookups>>

-----------------------------------------------------------------------------
(* Mutating calls *)

\* Variant of update_progress that also rejects progress equal to the duration.
update_progress_strict ==
    /\ Live
    /\ \E progress \in ProgressValues :
         IF data.duration = None
         THEN /\ results' = Append(results,
                     WithArg(Raised("update_progress", "TypeError"), progress))
              /\ UNCHANGED requests
         ELSE IF progress >= data.duration[1]
         THEN /\ results' = Append(results,
                     WithArg(Raised("update_progress", "Exception"), progress))
              /\ UNCHANGED requests
         ELSE \E r \in PostResults :
                /\ Send(Exchange("POST", "_post",
                          _make_url(API_BASE, _get_endpoint("play_status")),
                          "data",
                          [uuid |-> data.uuid,
                           podcast |-> podcast_id(data, _podcast, _api).value,
                           status |-> 2, position |-> progress],
                          r))
                /\ results' = Append(results,
                       WithArg(Returned("update_progress",
                                        Some(IF TruthyResult(r) THEN TRUE ELSE FALSE)),
                               progress))
    /\ UNCHANGED <<pc, args, _data, _podcast, _api, lookups>>

\* Episode.update_progress(progress)
update_progress ==
    /\ Live
    /\ \E progress \in ProgressValues :
         IF data.duration = None
         THEN /\ results' = Append(results,
                     WithArg(Raised("update_progress", "TypeError"), progress))
              /\ UNCHANGED requests
         ELSE IF progress > data.duration[1]
         THEN /\ results' = Append(results,
                     WithArg(Raised("update_progress", "Exception"), progress))
              /\ UNCHANGED requests
         ELSE LET pid == podcast_id(data, _podcast, _api)
              IN IF pid.raised # ""
                 THEN /\ results' = Append(results,
                             WithArg(Raised("update_progress", pid.raised), progress))
                      /\ UNCHANGED requests
                 ELSE \E r \in PostResults :
                        /\ Send(Exchange("POST", "_post",
                                  _make_url(API_BASE, _get_endpoint("play_status")),
                                  "data",
                                  [uuid |-> data.uuid, podcast |-> pid.value,
                                   status |-> 2, position |-> progress],
                                  r))
                        /\ results' = Append(results,
                               WithArg(Returned("update_progress",
                                                Some(IF TruthyResult(r) THEN TRUE ELSE FALSE)),
                                       progress))
    /\ UNCHANGED <<pc, args, _data, _podcast, _api, lookups>>

\* Variant of mark_played that repeats an unsuccessful POST once.
mark_played_retry ==
    /\ Live
    /\ LET pid == podcast_id(data, _podcast, _api)
           X(r) == Exchange("POST", "_post",
                            _make_url(API_BASE, _get_endpoint("play_status")), "data",
                            [uuid |-> data.uuid, podcast |-> pid.value, status |-> 3],
                            r)
       IN \E r1, r2 \in PostResults :
            IF TruthyResult(r1)
            THEN Send(X(r1)) /\ Return("mark_played", Some(TRUE))
            ELSE /\ requests' = Append(Append(requests, X(r1)), X(r2))
                 /\ Return("mark_played", Some(IF TruthyResult(r2) THEN TRUE ELSE FALSE))
    /\ UNCHANGED <<pc, args, _data, _podcast, _api, lookups>>

\* Episode.mark_played
mark_played ==
    /\ Live
    /\ LET pid == podcast_id(data, _podcast, _api)
       IN IF pid.raised # ""
          THEN Fail("mark_played", pid.raised)
          ELSE \E r \in PostResults :
                 /\ Send(Exchange("POST", "_post",
                           _make_url(API_BASE, _get_endpoint("play_status")), "data",
                           [uuid |-> data.uuid, podcast |-> pid.value, status |-> 3],
                           r))
                 /\ Return("mark_played", Some(IF TruthyResult(r) THEN TRUE ELSE FALSE))
    /\ UNCHANGED <<pc, args, _data, _podcast, _api, lookups>>

\* Variant of mark_unplayed that sends the in-progress status.
mark_unplayed_in_progress ==
    /\ Live
    /\ \E r \in PostResults :
         /\ Send(Exchange("POST", "_post",
                   _make_url(API_BASE, _get_endpoint("play_status")), "data",
                   [uuid |-> data.uuid,
                    podcast |-> podcast_id(data, _podcast, _api).value,
                    status |-> 2, position |-> 0],
                   r))
         /\ Return("mark_unplayed", Some(IF TruthyResult(r) THEN TRUE ELSE FALSE))
    /\ UNCHANGED <<pc, args, _data, _podcast, _api, lookups>>

\* Episode.mark_unplayed
mark_unplayed ==
    /\ Live
    /\ LET pid == podcast_id(data, _podcast, _api)
       IN IF pid.raised # ""
          THEN Fail("mark_unplayed", pid.raised)
          ELSE \E r \in PostResults :
                 /\ Send(Exchange("POST", "_post",
                           _make_url(API_BASE, _get_endpoint("play_status")), "data",
                           [uuid |-> data.uuid, podcast |-> pid.value,
                            status |-> 1, position |-> 0],
                           r))
                 /\ Return("mark_unplayed", Some(IF TruthyResult(r) THEN TRUE ELSE FALSE))
    /\ UNCHANGED <<pc, args, _data, _podcast, _api, lookups>>

\* Variant of add_star that records the star in the payload on success.
add_star_recording ==
    /\ Live
    /\ \E r \in PostResults :
         /\ Send(Exchange("POST", "_post",
                   _make_url(API_BASE, _get_endpoint("episode_star")), "json",
                   [uuid |-> data.uuid,
                    podcast |-> podcast_id(data, _podcast, _api).value,
                    star |-> TRUE],
                   r))
         /\ Return("add_star", Some(IF TruthyResult(r) THEN TRUE ELSE FALSE))
         /\ _data' = IF TruthyResult(r)
                     THEN Some([data EXCEPT !.starred = Some(TRUE)])
                     ELSE _data
    /\ UNCHANGED <<pc, args, _podcast, _api, lookups>>

\* Episode.add_star (the payload goes in the json keyword)
add_star ==
    /\ Live
    /\ LET pid == podcast_id(data, _podcast, _api)
       IN IF pid.raised # ""
          THEN Fail("add_star", pid.raised)
          ELSE \E r \in PostResults :
                 /\ Send(Exchange("POST", "_post",
                           _make_url(API_BASE, _get_endpoint("episode_star")), "json",
                           [uuid |-> data.uuid, podcast |-> pid.value, star |-> TRUE],
                           r))
                 /\ Return("add_star", Some(IF TruthyResult(r) THEN TRUE ELSE FALSE))
    /\ UNCHANGED <<pc, args, _data, _podcast, _api, lookups>>

\* Episode.remove_star (the payload goes in the json keyword)
remove_star ==
    /\ Live
    /\ LET pid == podcast_id(data, _podcast, _api)
       IN IF pid.raised # ""
          THEN Fail("remove_star", pid.raised)
          ELSE \E r \in PostResults :
                 /\ Send(Exchange("POST", "_post",
                           _make_url(API_BASE, _get_endpoint("episode_star")), "json",
                           [uuid |-> data.uuid, podcast |-> pid.value, star |-> FALSE],
                           r))
                 /\ Return("remove_star", Some(IF TruthyResult(r) THEN TRUE ELSE FALSE))
    /\ UNCHANGED <<pc, args, _data, _podcast, _api, lookups>>

\* Episode.archive
archive ==
    /\ Live
    /\ LET pid == podcast_id(data, _podcast, _api)
       IN IF pid.raised # ""
          THEN Fail("archive", pid.raised)
          ELSE \E r \in PostResults :
                 /\ Send(Exchange("POST", "_post",
                           _make_url(API_BASE, _get_endpoint("episode_archive")), "data",
                           [episodes |-> <<[uuid |-> data.uuid, podcast |-> pid.value]>>,
                            archive |-> TRUE],
                           r))
                 /\ Return("archive", Some(IF TruthyResult(r) THEN TRUE ELSE FALSE))
    /\ UNCHANGED <<pc, args, _data, _podcast, _api, lookups>>

\* Episode.unarchive
unarchive ==
    /\ Live
    /\ LET pid == podcast_id(data, _podcast, _api)
       IN IF pid.raised # ""
          THEN Fail("unarchive", pid.raised)
          ELSE \E r \in PostResults :
                 /\ Send(Exchange("POST", "_post",
                           _make_url(API_BASE, _get_endpoint("episode_archive")), "data",
                           [episodes |-> <<[uuid |-> data.uuid, podcast |-> pid.value]>>,
                            archive |-> FALSE],
                           r))
                 /\ Return("unarchive", Some(IF TruthyResult(r) THEN TRUE ELSE FALSE))
    /\ UNCHANGED <<pc, args, _data, _podcast, _api, lookups>>

\* The 'episode' entry of the queue payloads; 'published' is self.published_date.
QueueEpisode(pid) ==
    LET d == strptime(data.published, DATE_FORMAT)
    IN [uuid |-> data.uuid, title |-> data.title, url |-> data.url,
        podcast |-> pid.value,
        published |-> IF d.raised # "" THEN None ELSE d.value]

\* Variant of play_next that reports success whenever a response object came back.
play_next_any_response ==
    /\ Live
    /\ \E r \in PostResults :
         /\ Send(Exchange("POST", "_post",
                   _make_url(API_BASE, _get_endpoint("play_next")), "data",
                   [version |-> 2,
                    episode |-> QueueEpisode(podcast_id(data, _podcast, _api))],
                   r))
         /\ Return("play_next", Some(IF r # "None" THEN TRUE ELSE FALSE))
    /\ UNCHANGED <<pc, args, _data, _podcast, _api, lookups>>

\* Episode.play_next
play_next ==
    /\ Live
    /\ LET pid == podcast_id(data, _podcast, _api)
       IN IF pid.raised # ""
          THEN Fail("play_next", pid.raised)
          ELSE \E r \in PostResults :
                 /\ Send(Exchange("POST", "_post",
                           _make_url(API_BASE, _get_endpoint("play_next")), "data",
                           [version |-> 2, episode |-> QueueEpisode(pid)],
                           r))
                 /\ Return("play_next", Some(IF TruthyResult(r) THEN TRUE ELSE FALSE))
    /\ UNCHANGED <<pc, args, _data, _podcast, _api, lookups>>

\* Episode.play_last
play_last ==
    /\ Live
    /\ LET pid == podcast_id(data, _podcast, _api)
       IN IF pid.raised # ""
          THEN Fail("play_last", pid.raised)
          ELSE \E r \in PostResults :
                 /\ Send(Exchange("POST", "_post",
                           _make_url(API_BASE, _get_endpoint("play_last")), "data",
                           [version |-> 2, episode |-> QueueEpisode(pid)],
                           r))
                 /\ Return("play_last", Some(IF TruthyResult(r) THEN TRUE ELSE FALSE))
    /\ UNCHANGED <<pc, args, _data, _podcast, _api, lookups>>

-----------------------------------------------------------------------------

Next ==
    \/ __init__
    \/ title \/ id \/ duration \/ published_date \/ url \/ playing
    \/ current_position \/ deleted \/ starred
    \/ read_podcast_id \/ podcast
    \/ share_link \/ show_notes
    \/ update_progress \/ mark_played \/ mark_unplayed
    \/ add_star \/ remove_star \/ archive \/ unarchive
    \/ play_next \/ play_last

Spec == Init /\ [][Next]_vars

-----------------------------------------------------------------------------
(* Vocabulary of the properties *)

PlayStatusOps == {"update_progress", "mark_played", "mark_unplayed"}

MutatingOps ==
    PlayStatusOps \cup {"add_star", "remove_star", "archive", "unarchive",
                        "play_next", "play_last"}

FieldAccessors ==
    {"title", "id", "duration", "url", "playing", "current_position",
     "deleted", "starred", "published_date"}

\* The mutating calls that went through (were not rejected), in order.
Calls == SelectSeq(results, LAMBDA o : o.op \in MutatingOps /\ o.raised = "")

\* The requests issued through the API object's _post, in order.
Posts == SelectSeq(requests, LAMBDA x : x.helper = "_post")

\* The reads of share_link and the requests issued through _post_json, in order.
ShareReads == SelectSeq(results, LAMBDA o : o.op = "share_link")
SharePosts == SelectSeq(requests, LAMBDA x : x.helper = "_post_json")

\* The reads of show_notes.
NotesReads == SelectSeq(results, LAMBDA o : o.op = "show_notes")

\* The endpoint each mutating call is documented to address.
EndpointOf(op) ==
    CASE op \in PlayStatusOps -> "play_status"
      [] op \in {"add_star", "remove_star"} -> "episode_star"
      [] op \in {"archive", "unarchive"} -> "episode_archive"
      [] op = "play_next" -> "play_next"
      [] op = "play_last" -> "play_last"

\* Lookups the constructor made.
ConstructorLookups == IF pc = "live" /\ args.podcast = None THEN 1 ELSE 0

\* The podcast id of the live Episode: the payload's, else the parent's.
ParentId ==
    IF data.podcastUuid # None /\ data.podcastUuid[1] # ""
    THEN data.podcastUuid
    ELSE Some(_podcast[1].id)

-----------------------------------------------------------------------------
(* C1 *)

\* C1: every mutating call that goes through issues exactly one POST through
\* the API object, to the endpoint fixed for that call, and nothing else: the
\* POSTs correspond one to one, in order, to the calls; every request in the
\* log belongs to a mutating call, a share_link read or a show_notes read;
\* and the mutating calls make no podcast lookup.
C1_OneRequestPerCall ==
    pc = "live" =>
      LET calls == Calls
          posts == Posts
          shareReads == ShareReads
          notesReads == NotesReads
      IN
      /\ Len(posts) = Len(calls)
      /\ \A i \in 1..Len(posts) :
            /\ i <= Len(calls)
            /\ posts[i].method = "POST"
            /\ posts[i].url = _make_url(API_BASE, _get_endpoint(EndpointOf(calls[i].op)))
      /\ Len(requests) = Len(calls) + Len(shareReads) + Len(notesReads)
      /\ (\A i \in 2..Len(results) : results[i].op \in MutatingOps)
            => Len(lookups) = ConstructorLookups

\* Two mutating calls to different endpoints went through, the first of them
\* with an unsuccessful POST.
C1_Witness ==
    /\ pc = "live"
    /\ Len(Calls) = 2
    /\ Len(results) = 3
    /\ Len(requests) = 2
    /\ requests[1].url # requests[2].url
    /\ ~TruthyResult(requests[1].response)

-----------------------------------------------------------------------------
(* C2 *)

\* C2: a mutating call returns True exactly when the result of its _post is
\* truthy and False otherwise; it raises only when update_progress rejects its
\* argument; an unsuccessful POST is not repeated.
C2_ReturnsPostResult ==
    pc = "live" =>
      LET calls == Calls
          posts == Posts
      IN
      /\ Len(posts) = Len(calls)
      /\ \A i \in 1..Len(calls) :
            /\ i <= Len(posts)
            /\ calls[i].value = Some(TruthyResult(posts[i].response))
      /\ \A i \in 1..Len(results) :
            (results[i].op \in MutatingOps /\ results[i].raised # "")
               => /\ results[i].op = "update_progress"
                  /\ \/ data.duration = None
                     \/ results[i].arg > data.duration[1]

\* A call returned False on a falsy response object and another call followed.
C2_Witness ==
    /\ pc = "live"
    /\ Len(Calls) = 2
    /\ Len(Posts) = 2
    /\ Posts[1].response = "Response[400]"
    /\ Calls[1].value = Some(FALSE)
    /\ Calls[2].value = Some(TRUE)

-----------------------------------------------------------------------------
(* C3 *)

\* C3: a step of update_progress on an Episode with a duration either has
\* progress > duration, raises and leaves requests, lookups and the Episode's
\* fields as they were, or has progress <= duration, raises nothing and issues
\* one POST carrying that progress.
C3_ProgressGuard ==
    [][ (/\ pc = "live"
         /\ Len(results') = Len(results) + 1
         /\ Last(results').op = "update_progress"
         /\ data.duration # None)
        => LET o == Last(results')
           IN IF o.arg > data.duration[1]
              THEN /\ o.raised # ""
                   /\ UNCHANGED <<pc, _data, _podcast, _api, requests, lookups>>
              ELSE /\ o.raised = ""
                   /\ Len(requests') = Len(requests) + 1
                   /\ Last(requests').method = "POST"
                   /\ Last(requests').body.position = o.arg
                   /\ UNCHANGED <<pc, _data, _podcast, _api, lookups>> ]_vars

\* update_progress was called with progress equal to a positive duration and
\* went through, and was called with a larger progress and raised.
C3_Witness ==
    /\ pc = "live"
    /\ Len(results) = 3
    /\ data.duration # None
    /\ data.duration[1] > 0
    /\ results[2].op = "update_progress"
    /\ results[2].arg = data.duration[1]
    /\ results[2].raised = ""
    /\ Len(requests) = 1
    /\ results[3].op = "update_progress"
    /\ results[3].arg > data.duration[1]
    /\ results[3].raised = "Exception"

-----------------------------------------------------------------------------
(* C4 *)

\* C4: on every constructed Episode a read of podcast_id yields the payload's
\* 'podcastUuid' when that is non-empty and the id of the parent Podcast
\* object otherwise, and reads of podcast_id make no podcast lookup.
C4_PodcastId ==
    pc = "live" =>
      /\ \A i \in 1..Len(results) :
            results[i].op = "podcast_id" =>
               /\ results[i].raised = ""
               /\ results[i].value =
                     IF data.podcastUuid # None /\ data.podcastUuid[1] # ""
                     THEN data.podcastUuid
                     ELSE Some(_podcast[1].id)
      /\ (\A i \in 2..Len(results) : results[i].op = "podcast_id")
            => Len(lookups) = ConstructorLookups

\* podcast_id was read twice on an Episode whose payload names another podcast
\* than its parent object.
C4_Witness ==
    /\ pc = "live"
    /\ Len(results) = 3
    /\ results[2].op = "podcast_id"
    /\ results[3].op = "podcast_id"
    /\ data.podcastUuid = Some("pod-1")
    /\ _podcast = Some([id |-> "pod-2"])

-----------------------------------------------------------------------------
(* C5 *)

\* C5: the parent is resolved lazily: right after the construction of an
\* Episode no get_podcast_by_id lookup has been made, and an Episode
\* constructed with a podcast never makes one.
C5_LazyParentLookup ==
    /\ (pc = "live" /\ Len(results) = 1) => lookups = <<>>
    /\ (pc = "live" /\ args.podcast # None) => lookups = <<>>

-----------------------------------------------------------------------------
(* C6 *)

\* C6: the payload of a constructed Episode is the mapping it was constructed
\* from, whatever operations ran and however their requests ended, and two
\* reads of the same field accessor give the same outcome.
C6_PayloadImmutable ==
    pc = "live" =>
      /\ _data = Some(args.data)
      /\ \A i, j \in 1..Len(results) :
            (results[i].op \in FieldAccessors /\ results[i].op = results[j].op)
               => results[i] = results[j]

\* A star was added with a successful POST and starred was read afterwards.
C6_Witness ==
    /\ pc = "live"
    /\ Len(results) = 3
    /\ results[2].op = "add_star"
    /\ results[2].value = Some(TRUE)
    /\ results[3].op = "starred"
    /\ results[3].value = Some(FALSE)

-----------------------------------------------------------------------------
(* C7 *)

IsDigit(c) == \E i \in 1..10 : Digits[i] = c
DigitValue(c) == (CHOOSE i \in 1..10 : Digits[i] = c) - 1

\* Text of the form YYYY-MM-DDTHH:mm:ssZ.
WellFormedTimestamp(t) ==
    /\ Len(t) = 20
    /\ \A i \in {1, 2, 3, 4, 6, 7, 9, 10, 12, 13, 15, 16, 18, 19} : IsDigit(t[i])
    /\ t[5] = "-" /\ t[8] = "-" /\ t[11] = "T"
    /\ t[14] = ":" /\ t[17] = ":" /\ t[20] = "Z"

TwoDigits(t, i) == 10 * DigitValue(t[i]) + DigitValue(t[i + 1])

\* The date a well-formed timestamp denotes.
TimestampDate(t) ==
    [year |-> 100 * TwoDigits(t, 1) + TwoDigits(t, 3),
     month |-> TwoDigits(t, 6), day |-> TwoDigits(t, 9),
     hour |-> TwoDigits(t, 12), minute |-> TwoDigits(t, 15),
     second |-> TwoDigits(t, 18)]

\* C7: published_date never raises, yields the date of the 'published' field
\* whenever that is a well-formed timestamp, and yields None only otherwise.
C7_PublishedDate ==
    pc = "live" =>
      \A i \in 1..Len(results) :
         results[i].op = "published_date" =>
            /\ results[i].raised = ""
            /\ IF data.published # None /\ WellFormedTimestamp(data.published[1])
               THEN results[i].value = Some(TimestampDate(data.published[1]))
               ELSE results[i].value = None

-----------------------------------------------------------------------------
(* C8 *)

\* C8: the POST of each play-status call carries the episode's uuid and
\* podcast id; mark_played sends status 3 and no position, mark_unplayed
\* status 1 with position 0, update_progress(p) status 2 with position p; two
\* different play-status calls never send the same status.
C8_PlayStatusPayloads ==
    pc = "live" =>
      LET calls == Calls
          posts == Posts
      IN
      /\ Len(posts) = Len(calls)
      /\ \A i \in 1..Len(calls) :
            (i <= Len(posts) /\ calls[i].op \in PlayStatusOps) =>
               LET b == posts[i].body
               IN /\ b.uuid = data.uuid
                  /\ b.podcast = ParentId
                  /\ calls[i].op = "mark_played" =>
                        b.status = 3 /\ DOMAIN b = {"uuid", "podcast", "status"}
                  /\ calls[i].op = "mark_unplayed" =>
                        /\ b.status = 1
                        /\ DOMAIN b = {"uuid", "podcast", "status", "position"}
                        /\ b.position = 0
                  /\ calls[i].op = "update_progress" =>
                        /\ b.status = 2
                        /\ DOMAIN b = {"uuid", "podcast", "status", "position"}
                        /\ b.position = calls[i].arg
      /\ \A i, j \in 1..Len(calls) :
            (/\ i <= Len(posts) /\ j <= Len(posts)
             /\ calls[i].op \in PlayStatusOps /\ calls[j].op \in PlayStatusOps
             /\ calls[i].op # calls[j].op)
               => posts[i].body.status # posts[j].body.status

\* mark_unplayed and update_progress(0) both went through: the payloads agree
\* in everything but the status.
C8_Witness ==
    /\ pc = "live"
    /\ Len(Calls) = 2
    /\ Len(Posts) = 2
    /\ Calls[1].op = "mark_unplayed"
    /\ Calls[2].op = "update_progress"
    /\ Calls[2].arg = 0
    /\ Posts[1].body.position = Posts[2].body.position

-----------------------------------------------------------------------------
(* C9 *)

\* C9: every read of share_link issues one POST to the share endpoint that
\* carries the episode id and the podcast id, and yields the response's 'url'
\* value when the response is non-empty and None when it is empty or absent;
\* n reads issue n requests.
C9_ShareLink ==
    pc = "live" =>
      LET shareReads == ShareReads
          sharePosts == SharePosts
      IN
      /\ Len(sharePosts) = Len(shareReads)
      /\ \A i \in 1..Len(shareReads) :
            i <= Len(sharePosts) =>
               LET x == sharePosts[i]
                   o == shareReads[i]
               IN /\ x.method = "POST"
                  /\ x.url = _make_url(API_BASE, _get_endpoint("share"))
                  /\ x.body = [episode |-> data.uuid, podcast |-> ParentId]
                  /\ o.raised = ""
                  /\ IF x.response = None \/ x.response = Some({})
                     THEN o.value = None
                     ELSE IF \E kv \in x.response[1] : kv[1] = "url"
                     THEN /\ o.value # None
                          /\ <<"url", o.value[1]>> \in x.response[1]
                     ELSE o.value = None

\* share_link was read twice: once with a link in the response, once with an
\* empty response.
C9_Witness ==
    /\ pc = "live"
    /\ Len(ShareReads) = 2
    /\ Len(requests) = 2
    /\ ShareReads[1].value = Some("http://share/1")
    /\ ShareReads[2].value = None
    /\ requests[2].response = Some({})
====
